---- MODULE Spec2Model ----
(***************************************************************************)
(* Model of the futures-typesafe crate: the ownership-transferring Future  *)
(* trait (src/lib.rs), its reverse adapter Glue (src/lib.rs) and the type  *)
(* erasing container FutureObject with its two internal adapters TSFuture  *)
(* and TUFuture behind the UnsafeFuture trait (src/future_object.rs).      *)
(*                                                                         *)
(* Values are records tagged by "kind".  A client owns one value at a time *)
(* (held) and constructs, wraps, polls and drops it.  Client-implemented   *)
(* futures are scripts: NotReady n times, then Success, Failure or panic.  *)
(***************************************************************************)
EXTENDS Integers, Sequences, FiniteSets, TLC

\* ------------------------------------------------------------------ bounds

\* Largest number of NotReady results a client future gives before its end.
MaxPending == 2
\* Largest number of wrappers (FutureObject, Glue) around a client future.
MaxDepth == 2
\* Largest number of polls the client makes of one value beyond the
\* MaxPending + 1 a script needs (a reference-based future can be polled
\* after it has completed).
MaxMisuse == 2

Items == {42, 7}
Errors == {"E", "F"}
Agains == {"Panic", "NotReady"}

\* ------------------------------------------------------------------ values

\* The absent value: Option::None, a moved-out binding, an unused field.
None == [kind |-> "None"]

\* A client future implementing the ownership-transferring trait ::Future.
Script(n, end, item, error) ==
    [kind |-> "Script", n |-> n, end |-> end, item |-> item, error |-> error]

\* A client future implementing the reference-based ::futures::Future.
\* "done" is its own record of having completed; "again" is what this
\* particular future does when polled after completion (the external contract
\* leaves it open: it may panic or keep answering NotReady).
RefScript(n, end, item, error, again) ==
    [kind |-> "RefScript", n |-> n, end |-> end, item |-> item,
     error |-> error, done |-> FALSE, again |-> again]

ScriptEnds ==
    {<<"Success", i, "">> : i \in Items} \cup
    {<<"Failure", 0, e>> : e \in Errors} \cup
    {<<"Panic", 0, "">>}

Scripts == {Script(n, t[1], t[2], t[3]) : n \in 0..MaxPending, t \in ScriptEnds}

RefScripts ==
    {RefScript(n, t[1], t[2], t[3], a) :
        n \in 0..MaxPending, t \in ScriptEnds, a \in Agains}

\* struct TSFuture<F>(Option<F>): "resolved" is the history of the instance
\* (its poll has returned Ready or Err, or has unwound).
TSFuture(opt) == [kind |-> "TSFuture", opt |-> opt, resolved |-> FALSE]

\* struct TUFuture<F>(F)
TUFuture(f) == [kind |-> "TUFuture", f |-> f, resolved |-> FALSE]

\* struct FutureObject(Box<UnsafeFuture>)
FutureObject(box) == [kind |-> "FutureObject", box |-> box]

\* enum Glue<F> { Valid(F), Invalid }
GlueValid(f) == [kind |-> "Glue", state |-> "Valid", fut |-> f]
GlueInvalid == [kind |-> "Glue", state |-> "Invalid", fut |-> None]

\* TSFuture::new
TSFutureNew(f) == TSFuture(f)

\* TUFuture::new
TUFutureNew(f) == TUFuture(f)

\* FutureObject::from_type_safe_future
from_type_safe_future(future) == FutureObject(TSFutureNew(future))

\* FutureObject::from_type_unsafe_future
from_type_unsafe_future(future) == FutureObject(TUFutureNew(future))

\* Future::glue
glue(self) == GlueValid(self)

IsOwn(v) == v.kind \in {"Script", "FutureObject"}
IsRef(v) == v.kind \in {"RefScript", "Glue"}

\* ------------------------------------------------------------------ drop

\* The number of client futures a value owns, which is the number dropping
\* the value releases (Rust's drop glue follows the fields).
RECURSIVE DropCount(_)
DropCount(v) ==
    CASE v.kind = "None" -> 0
      [] v.kind = "Script" -> 1
      [] v.kind = "RefScript" -> 1
      [] v.kind = "FutureObject" -> DropCount(v.box)
      [] v.kind = "TSFuture" -> DropCount(v.opt)
      [] v.kind = "TUFuture" -> DropCount(v.f)
      [] v.kind = "Glue" -> IF v.state = "Valid" THEN DropCount(v.fut) ELSE 0

\* The events of dropping a value: one "release" per client future it owns.
DropEv(v) == [i \in 1..DropCount(v) |-> "release"]

\* The number of wrappers around the client future of a value.
RECURSIVE Depth(_)
Depth(v) ==
    CASE v.kind = "None" -> 0
      [] v.kind = "Script" -> 0
      [] v.kind = "RefScript" -> 0
      [] v.kind = "FutureObject" -> 1 + Depth(v.box)
      [] v.kind = "TSFuture" -> Depth(v.opt)
      [] v.kind = "TUFuture" -> Depth(v.f)
      [] v.kind = "Glue" -> 1 + Depth(v.fut)

\* ------------------------------------------------------------------ results

\* ::Poll<F>: Success(item), Failure(error), NotReady(fut); "Panic" is the
\* call unwinding with msg, "UB" is undefined behaviour having been executed.
\* ev lists what the call did, in order.
OwnRes(tag, item, error, msg, fut, ev) ==
    [tag |-> tag, item |-> item, error |-> error, msg |-> msg, fut |-> fut, ev |-> ev]

\* ::futures::Poll<Item, Error>: Ok(Ready(item)), Ok(NotReady), Err(error);
\* self is the polled object as the call leaves it behind its &mut.
RefRes(tag, item, error, msg, self, ev) ==
    [tag |-> tag, item |-> item, error |-> error, msg |-> msg, self |-> self, ev |-> ev]

\* ------------------------------------------------------------------ polls

RECURSIVE Poll(_)
RECURSIVE PollRef(_)

\* A client's ::Future::poll(self): the script consumes itself; it comes back
\* inside NotReady, and is released inside the call otherwise (a panic
\* unwinds through the frame that owns it).
PollScript(self) ==
    IF self.n > 0
    THEN OwnRes("NotReady", 0, "", "", [self EXCEPT !.n = @ - 1], <<"Script.poll">>)
    ELSE CASE self.end = "Success" ->
                OwnRes("Success", self.item, "", "", None, <<"Script.poll", "release">>)
           [] self.end = "Failure" ->
                OwnRes("Failure", 0, self.error, "", None, <<"Script.poll", "release">>)
           [] self.end = "Panic" ->
                OwnRes("Panic", 0, "", "script", None,
                       <<"Script.poll", "Script.panic", "release">>)

\* A client's ::futures::Future::poll(&mut self): the object stays where it
\* is, whatever the result.
PollRefScript(self) ==
    IF self.done
    THEN IF self.again = "Panic"
         THEN RefRes("Panic", 0, "", "polled after completion", self,
                     <<"RefScript.poll", "RefScript.panic">>)
         ELSE RefRes("NotReady", 0, "", "", self, <<"RefScript.poll">>)
    ELSE IF self.n > 0
    THEN RefRes("NotReady", 0, "", "", [self EXCEPT !.n = @ - 1], <<"RefScript.poll">>)
    ELSE LET self1 == [self EXCEPT !.done = TRUE]
         IN CASE self.end = "Success" ->
                   RefRes("Ready", self.item, "", "", self1, <<"RefScript.poll">>)
              [] self.end = "Failure" ->
                   RefRes("Err", 0, self.error, "", self1, <<"RefScript.poll">>)
              [] self.end = "Panic" ->
                   RefRes("Panic", 0, "", "script", self1,
                          <<"RefScript.poll", "RefScript.panic">>)

\* Mutant of GluePanicMsg: the panic is raised with another message.
GluePanicMsg_Reworded == "Future polled twice"

\* The message of the panic Glue::poll raises on an Invalid adapter.
GluePanicMsg == "Poll called on resolved Future!"

\* Mutant of GlueMatch: the NotReady arm does not write Valid(f) back, so
\* the Glue stays Invalid and the continuation is dropped.
GlueMatch_NoRestore(res, ev) ==
    CASE res.tag = "Success" ->
            RefRes("Ready", res.item, "", "", GlueInvalid, ev \o res.ev)
      [] res.tag = "Failure" ->
            RefRes("Err", 0, res.error, "", GlueInvalid, ev \o res.ev)
      [] res.tag = "NotReady" ->
            RefRes("NotReady", 0, "", "", GlueInvalid,
                   ev \o res.ev \o DropEv(res.fut))
      [] res.tag = "Panic" ->
            RefRes("Panic", 0, "", res.msg, GlueInvalid, ev \o res.ev)
      [] res.tag = "UB" ->
            RefRes("UB", 0, "", "", GlueInvalid, ev \o res.ev)

\* impl futures::Future for Glue: the match on fut.poll().  self is already
\* Invalid here; only the NotReady arm writes it again.
GlueMatch(res, ev) ==
    CASE res.tag = "Success" ->
            RefRes("Ready", res.item, "", "", GlueInvalid, ev \o res.ev)
      [] res.tag = "Failure" ->
            RefRes("Err", 0, res.error, "", GlueInvalid, ev \o res.ev)
      [] res.tag = "NotReady" ->
            RefRes("NotReady", 0, "", "", GlueValid(res.fut),
                   ev \o res.ev \o <<"Glue:=Valid">>)
      [] res.tag = "Panic" ->
            RefRes("Panic", 0, "", res.msg, GlueInvalid, ev \o res.ev)
      [] res.tag = "UB" ->
            RefRes("UB", 0, "", "", GlueInvalid, ev \o res.ev)

\* Mutant of PollGlue: the Invalid arm answers NotReady instead of
\* panicking.
PollGlue_NoPanic(self) ==
    LET ev == <<"Glue.poll", "Glue:=Invalid">>
    IN IF self.state = "Valid"
       THEN GlueMatch(Poll(self.fut), ev)
       ELSE RefRes("NotReady", 0, "", "", GlueInvalid, ev)

\* Mutant of PollGlue: self is read without being replaced by Invalid first,
\* and Invalid is written only after the wrapped future has resolved; a panic
\* of the wrapped poll leaves Valid(fut) with the consumed future in it.
PollGlue_NoReplace(self) ==
    IF self.state = "Valid"
    THEN LET res == Poll(self.fut)
             ev == <<"Glue.poll">> \o res.ev
         IN CASE res.tag = "Success" ->
                    RefRes("Ready", res.item, "", "", GlueInvalid,
                           ev \o <<"Glue:=Invalid">>)
              [] res.tag = "Failure" ->
                    RefRes("Err", 0, res.error, "", GlueInvalid,
                           ev \o <<"Glue:=Invalid">>)
              [] res.tag = "NotReady" ->
                    RefRes("NotReady", 0, "", "", GlueValid(res.fut),
                           ev \o <<"Glue:=Valid">>)
              [] res.tag = "Panic" ->
                    RefRes("Panic", 0, "", res.msg, self, ev)
              [] res.tag = "UB" ->
                    RefRes("UB", 0, "", "", self, ev)
    ELSE RefRes("Panic", 0, "", GluePanicMsg, GlueInvalid,
                <<"Glue.poll", "Glue.panic">>)

\* impl futures::Future for Glue: poll(&mut self)
PollGlue(self) ==
    LET ev == <<"Glue.poll", "Glue:=Invalid">>
    IN IF self.state = "Valid"
       THEN GlueMatch(Poll(self.fut), ev)
       ELSE RefRes("Panic", 0, "", GluePanicMsg, GlueInvalid, ev \o <<"Glue.panic">>)

\* Mutant of PollTUFuture: the wrapped future is polled twice and the first
\* result is thrown away.
PollTUFuture_Twice(self) ==
    LET first == PollRef(self.f)
        res == PollRef(first.self)
    IN RefRes(res.tag, res.item, res.error, res.msg,
              [self EXCEPT !.f = res.self],
              <<"TUFuture.poll">> \o first.ev \o res.ev)

\* impl UnsafeFuture for TUFuture: poll(&mut self) is self.0.poll()
PollTUFuture(self) ==
    LET res == PollRef(self.f)
    IN RefRes(res.tag, res.item, res.error, res.msg,
              [self EXCEPT !.f = res.self], <<"TUFuture.poll">> \o res.ev)

\* Mutant of TSFutureMatch: the NotReady arm does not put the continuation
\* back, so the Option stays None and the continuation is dropped.
TSFutureMatch_NoRestore(res, self, ev) ==
    CASE res.tag = "Success" ->
            RefRes("Ready", res.item, "", "", self, ev \o res.ev)
      [] res.tag = "Failure" ->
            RefRes("Err", 0, res.error, "", self, ev \o res.ev)
      [] res.tag = "NotReady" ->
            RefRes("NotReady", 0, "", "", self, ev \o res.ev \o DropEv(res.fut))
      [] res.tag = "Panic" ->
            RefRes("Panic", 0, "", res.msg, self, ev \o res.ev)
      [] res.tag = "UB" ->
            RefRes("UB", 0, "", "", self, ev \o res.ev)

\* Mutant of TSFutureMatch: the Failure arm panics instead of returning
\* Err(error).
TSFutureMatch_FailurePanics(res, self, ev) ==
    CASE res.tag = "Success" ->
            RefRes("Ready", res.item, "", "", self, ev \o res.ev)
      [] res.tag = "Failure" ->
            RefRes("Panic", 0, "", "failure", self, ev \o res.ev)
      [] res.tag = "NotReady" ->
            IF self.opt = None
            THEN RefRes("NotReady", 0, "", "", [self EXCEPT !.opt = res.fut],
                        ev \o res.ev \o <<"TSFuture.replace(None)">>)
            ELSE RefRes("UB", 0, "", "", [self EXCEPT !.opt = res.fut],
                        ev \o res.ev \o <<"TSFuture.replace(Some)">>)
      [] res.tag = "Panic" ->
            RefRes("Panic", 0, "", res.msg, self, ev \o res.ev)
      [] res.tag = "UB" ->
            RefRes("UB", 0, "", "", self, ev \o res.ev)

\* impl UnsafeFuture for TSFuture: the match on res.  self holds None here;
\* the NotReady arm replaces it by Some(future) and assumes None came out.
TSFutureMatch(res, self, ev) ==
    CASE res.tag = "Success" ->
            RefRes("Ready", res.item, "", "", self, ev \o res.ev)
      [] res.tag = "Failure" ->
            RefRes("Err", 0, res.error, "", self, ev \o res.ev)
      [] res.tag = "NotReady" ->
            IF self.opt = None
            THEN RefRes("NotReady", 0, "", "", [self EXCEPT !.opt = res.fut],
                        ev \o res.ev \o <<"TSFuture.replace(None)">>)
            ELSE RefRes("UB", 0, "", "", [self EXCEPT !.opt = res.fut],
                        ev \o res.ev \o <<"TSFuture.replace(Some)">>)
      [] res.tag = "Panic" ->
            RefRes("Panic", 0, "", res.msg, self, ev \o res.ev)
      [] res.tag = "UB" ->
            RefRes("UB", 0, "", "", self, ev \o res.ev)

\* Mutant of PollTSFuture: the future is read out of the Option without
\* take(), so the Option keeps a copy of a value that has been moved away.
PollTSFuture_NoTake(self) ==
    LET taken == self.opt
        ev == <<"TSFuture.poll">>
    IN IF taken = None
       THEN RefRes("UB", 0, "", "", self, ev \o <<"unchecked_unwrap(None)">>)
       ELSE LET res == Poll(taken)
            IN CASE res.tag = "Success" ->
                       RefRes("Ready", res.item, "", "", self, ev \o res.ev)
                 [] res.tag = "Failure" ->
                       RefRes("Err", 0, res.error, "", self, ev \o res.ev)
                 [] res.tag = "NotReady" ->
                       RefRes("NotReady", 0, "", "", [self EXCEPT !.opt = res.fut],
                              ev \o res.ev)
                 [] res.tag = "Panic" ->
                       RefRes("Panic", 0, "", res.msg, self, ev \o res.ev)
                 [] res.tag = "UB" ->
                       RefRes("UB", 0, "", "", self, ev \o res.ev)

\* Mutant of PollTSFuture: the future is cloned out of the Option instead
\* of taken, so the Option is still Some when the continuation is put back.
PollTSFuture_KeepsSome(self) ==
    LET taken == self.opt
        ev == <<"TSFuture.poll", "TSFuture.take">>
    IN IF taken = None
       THEN RefRes("UB", 0, "", "", self, ev \o <<"unchecked_unwrap(None)">>)
       ELSE TSFutureMatch(Poll(taken), self, ev)

\* impl UnsafeFuture for TSFuture: poll(&mut self).  take() empties the
\* Option before the future is polled; unchecked_unwrap() of None is
\* undefined behaviour.
PollTSFuture(self) ==
    LET taken == self.opt
        self1 == [self EXCEPT !.opt = None]
        ev == <<"TSFuture.poll", "TSFuture.take">>
    IN IF taken = None
       THEN RefRes("UB", 0, "", "", self1, ev \o <<"unchecked_unwrap(None)">>)
       ELSE TSFutureMatch(Poll(taken), self1, ev)

\* trait UnsafeFuture: poll through the Box's dynamic dispatch.  The call is
\* logged as illegal when the instance has resolved already, and the
\* instance's history is brought up to date.
PollUnsafe(self) ==
    LET res == IF self.kind = "TSFuture" THEN PollTSFuture(self) ELSE PollTUFuture(self)
        call == IF self.resolved THEN "UnsafeFuture.poll(resolved)" ELSE "UnsafeFuture.poll"
        now == self.resolved \/ res.tag \in {"Ready", "Err", "Panic"}
    IN RefRes(res.tag, res.item, res.error, res.msg,
              [res.self EXCEPT !.resolved = now], <<call>> \o res.ev)

\* Mutant of FutureObjectMatch: the Ready arm hands self back as if the
\* future were not ready.
FutureObjectMatch_ReadyKeepsSelf(res, self) ==
    CASE res.tag = "Ready" ->
            OwnRes("NotReady", 0, "", "", self, res.ev)
      [] res.tag = "NotReady" ->
            OwnRes("NotReady", 0, "", "", self, res.ev)
      [] res.tag = "Err" ->
            OwnRes("Failure", 0, res.error, "", None, res.ev \o DropEv(self))
      [] res.tag = "Panic" ->
            OwnRes("Panic", 0, "", res.msg, None, res.ev \o DropEv(self))
      [] res.tag = "UB" ->
            OwnRes("UB", 0, "", "", self, res.ev)

\* Mutant of FutureObjectMatch: the Err arm hands self back as if the
\* future were not ready.
FutureObjectMatch_ErrKeepsSelf(res, self) ==
    CASE res.tag = "Ready" ->
            OwnRes("Success", res.item, "", "", None, res.ev \o DropEv(self))
      [] res.tag = "NotReady" ->
            OwnRes("NotReady", 0, "", "", self, res.ev)
      [] res.tag = "Err" ->
            OwnRes("NotReady", 0, "", "", self, res.ev)
      [] res.tag = "Panic" ->
            OwnRes("Panic", 0, "", res.msg, None, res.ev \o DropEv(self))
      [] res.tag = "UB" ->
            OwnRes("UB", 0, "", "", self, res.ev)

\* Mutant of FutureObjectMatch: a panic of the boxed poll is caught and self
\* is handed back to be polled again.
FutureObjectMatch_PanicCaught(res, self) ==
    CASE res.tag = "Ready" ->
            OwnRes("Success", res.item, "", "", None, res.ev \o DropEv(self))
      [] res.tag = "NotReady" ->
            OwnRes("NotReady", 0, "", "", self, res.ev)
      [] res.tag = "Err" ->
            OwnRes("Failure", 0, res.error, "", None, res.ev \o DropEv(self))
      [] res.tag = "Panic" ->
            OwnRes("NotReady", 0, "", "", self, res.ev)
      [] res.tag = "UB" ->
            OwnRes("UB", 0, "", "", self, res.ev)

\* impl Future for FutureObject: the match on res.  self comes back only in
\* NotReady; in every other arm, and when the call unwinds, it is dropped.
FutureObjectMatch(res, self) ==
    CASE res.tag = "Ready" ->
            OwnRes("Success", res.item, "", "", None, res.ev \o DropEv(self))
      [] res.tag = "NotReady" ->
            OwnRes("NotReady", 0, "", "", self, res.ev)
      [] res.tag = "Err" ->
            OwnRes("Failure", 0, res.error, "", None, res.ev \o DropEv(self))
      [] res.tag = "Panic" ->
            OwnRes("Panic", 0, "", res.msg, None, res.ev \o DropEv(self))
      [] res.tag = "UB" ->
            OwnRes("UB", 0, "", "", self, res.ev)

\* Mutant of PollFutureObject: a NotReady of the boxed poll is not returned
\* but polled through once more.
PollFutureObject_Twice(self) ==
    LET first == PollUnsafe(self.box)
        again == PollUnsafe(first.self)
        res == IF first.tag = "NotReady"
               THEN [again EXCEPT !.ev = first.ev \o @]
               ELSE first
    IN FutureObjectMatch(
           [res EXCEPT !.ev = <<"FutureObject.poll">> \o @],
           [self EXCEPT !.box = res.self])

\* impl Future for FutureObject: poll(mut self)
PollFutureObject(self) ==
    LET res == PollUnsafe(self.box)
    IN FutureObjectMatch(
           [res EXCEPT !.ev = <<"FutureObject.poll">> \o @],
           [self EXCEPT !.box = res.self])

\* ::Future::poll by the type of the value
Poll(f) ==
    IF f.kind = "Script" THEN PollScript(f) ELSE PollFutureObject(f)

\* ::futures::Future::poll by the type of the value
PollRef(g) ==
    IF g.kind = "RefScript" THEN PollRefScript(g) ELSE PollGlue(g)

\* ------------------------------------------------------------------ state

VARIABLES
    held,      \* the value the client owns (None when it owns nothing)
    ctor,      \* how held was made: the last constructor or wrapper applied
    orig,      \* the value that constructor was given
    out,       \* what the client's polls returned since then, in order
    made,      \* the number of client futures created (0 or 1) since the last New
    released,  \* the number of releases of client futures since the last New
    log,       \* what the last operation did, in order
    ub,        \* whether undefined behaviour has been executed
    boxed      \* the UnsafeFuture instance of the container last polled, as its
               \* poll left it (before the container is dropped or handed back)

vars == <<held, ctor, orig, out, made, released, log, ub, boxed>>

\* What the client sees of a ::Poll: cont tells that a value to poll next
\* came back.
ObsOwn(r) ==
    [tag |-> r.tag, item |-> r.item, error |-> r.error, msg |-> r.msg,
     cont |-> r.fut # None]

\* What the client sees of a ::futures::Poll.
ObsRef(r) ==
    [tag |-> r.tag, item |-> r.item, error |-> r.error, msg |-> r.msg,
     cont |-> FALSE]

Releases(ev) == Cardinality({i \in DOMAIN ev : ev[i] = "release"})

Init ==
    /\ held = None
    /\ ctor = "none"
    /\ orig = None
    /\ out = <<>>
    /\ made = 0
    /\ released = 0
    /\ log = <<>>
    /\ ub = FALSE
    /\ boxed = None

\* The client creates a future of its own, implementing ::Future.
NewScript ==
    /\ held = None
    /\ \E f \in Scripts :
        /\ held' = f
        /\ orig' = f
    /\ ctor' = "Script"
    /\ out' = <<>>
    /\ made' = 1
    /\ released' = 0
    /\ log' = <<>>
    /\ boxed' = None
    /\ UNCHANGED ub

\* The client creates a future of its own, implementing ::futures::Future.
NewRefScript ==
    /\ held = None
    /\ \E g \in RefScripts :
        /\ held' = g
        /\ orig' = g
    /\ ctor' = "RefScript"
    /\ out' = <<>>
    /\ made' = 1
    /\ released' = 0
    /\ log' = <<>>
    /\ boxed' = None
    /\ UNCHANGED ub

\* FutureObject::from_type_safe_future(held)
FromTypeSafe ==
    /\ IsOwn(held)
    /\ Depth(held) < MaxDepth
    /\ held' = from_type_safe_future(held)
    /\ orig' = held
    /\ ctor' = "from_type_safe_future"
    /\ out' = <<>>
    /\ log' = <<>>
    /\ boxed' = None
    /\ UNCHANGED <<made, released, ub>>

\* FutureObject::from_type_unsafe_future(held)
FromTypeUnsafe ==
    /\ IsRef(held)
    /\ Depth(held) < MaxDepth
    /\ held' = from_type_unsafe_future(held)
    /\ orig' = held
    /\ ctor' = "from_type_unsafe_future"
    /\ out' = <<>>
    /\ log' = <<>>
    /\ boxed' = None
    /\ UNCHANGED <<made, released, ub>>

\* held.glue()
MakeGlue ==
    /\ IsOwn(held)
    /\ Depth(held) < MaxDepth
    /\ held' = glue(held)
    /\ orig' = held
    /\ ctor' = "glue"
    /\ out' = <<>>
    /\ log' = <<>>
    /\ boxed' = None
    /\ UNCHANGED <<made, released, ub>>

\* held.poll() of ::Future: held is moved into the call; the client owns
\* what NotReady hands back and nothing otherwise.  After undefined
\* behaviour the client may be left with anything.
PollOwned ==
    /\ IsOwn(held)
    /\ Len(out) < MaxPending + 1 + MaxMisuse
    /\ LET r == Poll(held)
       IN /\ \/ r.tag = "NotReady" /\ held' = r.fut
             \/ r.tag \in {"Success", "Failure", "Panic"} /\ held' = None
             \/ r.tag = "UB" /\ held' \in {None, r.fut}
          /\ out' = Append(out, ObsOwn(r))
          /\ released' = released + Releases(r.ev)
          /\ log' = r.ev
          /\ ub' = (ub \/ r.tag = "UB")
    /\ boxed' = IF held.kind = "FutureObject" THEN PollUnsafe(held.box).self ELSE None
    /\ UNCHANGED <<ctor, orig, made>>

\* held.poll() of ::futures::Future: held is borrowed and stays with the
\* client, also when the call returns Ready or Err or unwinds.
PollBorrowed ==
    /\ IsRef(held)
    /\ Len(out) < MaxPending + 1 + MaxMisuse
    /\ LET r == PollRef(held)
       IN /\ held' = r.self
          /\ out' = Append(out, ObsRef(r))
          /\ released' = released + Releases(r.ev)
          /\ log' = r.ev
          /\ ub' = (ub \/ r.tag = "UB")
    /\ boxed' = None
    /\ UNCHANGED <<ctor, orig, made>>

\* The client drops held.
DropHeld ==
    /\ held # None
    /\ held' = None
    /\ released' = released + DropCount(held)
    /\ log' = <<"drop">> \o DropEv(held)
    /\ boxed' = None
    /\ UNCHANGED <<ctor, orig, out, made, ub>>

Next ==
    \/ NewScript
    \/ NewRefScript
    \/ FromTypeSafe
    \/ FromTypeUnsafe
    \/ MakeGlue
    \/ PollOwned
    \/ PollBorrowed
    \/ DropHeld

Spec == Init /\ [][Next]_vars

\* ------------------------------------------------------------------ reference runs

\* The first k results of polling the ownership-transferring future f
\* directly, each time polling what NotReady handed back; the run ends at the
\* first result that is not NotReady.
RECURSIVE OwnTrace(_, _)
OwnTrace(f, k) ==
    IF k = 0 THEN <<>>
    ELSE LET r == Poll(f)
         IN IF r.tag = "NotReady"
            THEN <<ObsOwn(r)>> \o OwnTrace(r.fut, k - 1)
            ELSE <<ObsOwn(r)>>

\* The first k results of polling the reference-based future g directly, in
\* place; the run ends at the first result that is not NotReady.
RECURSIVE RefTrace(_, _)
RefTrace(g, k) ==
    IF k = 0 THEN <<>>
    ELSE LET r == PollRef(g)
         IN IF r.tag = "NotReady"
            THEN <<ObsRef(r)>> \o RefTrace(r.self, k - 1)
            ELSE <<ObsRef(r)>>

\* The 1:1 mapping of reference-based results to ownership-transferring
\* ones: Ready(v) -> Success(v), NotReady -> NotReady(container),
\* Err(e) -> Failure(e); a panic stays a panic.
RefToOwn(o) ==
    [o EXCEPT !.tag = CASE o.tag = "Ready" -> "Success"
                        [] o.tag = "Err" -> "Failure"
                        [] OTHER -> o.tag,
              !.cont = (o.tag = "NotReady")]

\* The inverse mapping: Success(v) -> Ready(v), Failure(e) -> Err(e),
\* NotReady(f) -> NotReady.
OwnToRef(o) ==
    [o EXCEPT !.tag = CASE o.tag = "Success" -> "Ready"
                        [] o.tag = "Failure" -> "Err"
                        [] OTHER -> o.tag,
              !.cont = FALSE]

MapSeq(Op(_), seq) == [i \in DOMAIN seq |-> Op(seq[i])]

Last(seq) == seq[Len(seq)]

CountEv(ev, names) == Cardinality({i \in DOMAIN ev : ev[i] \in names})

\* ------------------------------------------------------------------ claims

\* C1: a container made by from_type_safe_future(f) hands the client, poll
\* after poll, exactly the results polling f directly gives: NotReady each
\* time with a container to poll next, then the same Success(v), Failure(e)
\* (or the same panic), and nothing after it.
C1_SafeContainerRefinesFuture ==
    ctor = "from_type_safe_future" => out = OwnTrace(orig, Len(out))

\* C1 witness: a script NotReady twice, then Success, driven to its end
\* through the container.
C1_Witness ==
    /\ ctor = "from_type_safe_future"
    /\ orig.kind = "Script"
    /\ orig.n = 2
    /\ Len(out) = 3
    /\ out[1].tag = "NotReady" /\ out[1].cont
    /\ out[2].tag = "NotReady" /\ out[2].cont
    /\ out[3].tag = "Success"
    /\ held = None

\* C2: a container made by from_type_unsafe_future(g) hands the client, poll
\* after poll, exactly the results polling g in place gives, mapped 1:1
\* (Ready(v) -> Success(v), NotReady -> NotReady(container), Err(e) ->
\* Failure(e)), none added, dropped or reordered.
C2_UnsafeContainerRefinesFuture ==
    ctor = "from_type_unsafe_future" =>
        out = MapSeq(RefToOwn, RefTrace(orig, Len(out)))

\* C2 witness: a reference-based script NotReady once, then Err, driven to
\* its end through the container.
C2_Witness ==
    /\ ctor = "from_type_unsafe_future"
    /\ orig.kind = "RefScript"
    /\ ~orig.done
    /\ orig.n = 1
    /\ Len(out) = 2
    /\ out[1].tag = "NotReady" /\ out[1].cont
    /\ out[2].tag = "Failure"
    /\ held = None

\* The events that are a client future being polled, and those that are a
\* panic being raised.
BasePolls == {"Script.poll", "RefScript.poll"}
Panics == {"Script.panic", "RefScript.panic", "Glue.panic"}

\* The last operation was a poll of a Glue the client holds.
GluePolled == held.kind = "Glue" /\ Len(log) > 0 /\ log[1] = "Glue.poll"

\* C3: once a Glue has returned Ready or Err from a poll, every later poll
\* of it panics with the misuse message, polls no wrapped future and leaves
\* the Glue Invalid.
C3_GlueResolvedPanics ==
    [][(/\ ctor = "glue"
        /\ \E i \in DOMAIN out : out[i].tag \in {"Ready", "Err"}
        /\ ctor' = ctor
        /\ out' # out)
       => /\ held = GlueInvalid
          /\ Len(out') = Len(out) + 1
          /\ Last(out').tag = "Panic"
          /\ Last(out').msg = GluePanicMsg
          /\ CountEv(log', BasePolls \cup {"FutureObject.poll"}) = 0
          /\ released' = released
          /\ held' = GlueInvalid]_vars

\* C3 witness: a Glue that returned Ready was polled twice more, and
\* panicked both times.
C3_Witness ==
    /\ ctor = "glue"
    /\ Len(out) >= 3
    /\ out[Len(out) - 2].tag = "Ready"
    /\ out[Len(out) - 1].tag = "Panic"
    /\ Last(out).tag = "Panic"
    /\ held = GlueInvalid

\* C4: a Glue is constructed Valid, and a poll of Valid(f) that returns
\* normally polls f once and does one of three things: f gave Success, the
\* Glue becomes Invalid and returns Ready; f gave Failure, it becomes Invalid
\* and returns Err; f gave NotReady(f2), it becomes Valid(f2) and returns
\* NotReady.  A poll that returns normally never starts from Invalid.
C4_GlueTransitions ==
    [][/\ (held.kind # "Glue" /\ held'.kind = "Glue") => held' = GlueValid(held)
       /\ (/\ held.kind = "Glue"
           /\ held'.kind = "Glue"
           /\ out' # out
           /\ Last(out').tag # "Panic")
          => /\ held.state = "Valid"
             /\ LET r == Poll(held.fut)
                    o == Last(out')
                IN /\ log' = <<"Glue.poll", "Glue:=Invalid">> \o r.ev
                               \o (IF r.tag = "NotReady"
                                   THEN <<"Glue:=Valid">> ELSE <<>>)
                   /\ \/ /\ r.tag = "Success"
                         /\ held' = GlueInvalid
                         /\ o.tag = "Ready" /\ o.item = r.item
                      \/ /\ r.tag = "Failure"
                         /\ held' = GlueInvalid
                         /\ o.tag = "Err" /\ o.error = r.error
                      \/ /\ r.tag = "NotReady"
                         /\ held' = GlueValid(r.fut)
                         /\ o.tag = "NotReady"]_vars

\* C4 witness: a Glue returned NotReady and was left Valid holding the
\* script one step on.
C4_Witness ==
    /\ ctor = "glue"
    /\ GluePolled
    /\ orig.kind = "Script"
    /\ orig.n = 2
    /\ Len(out) = 1
    /\ out[1].tag = "NotReady"
    /\ held = GlueValid([orig EXCEPT !.n = 1])

\* C5 as the specification words it: polling a Glue that is Invalid panics
\* with the message "step invoked on a resolved future."
C5_SpecMessage ==
    [][(held = GlueInvalid /\ ctor' = ctor /\ out' # out)
       => /\ Last(out').tag = "Panic"
          /\ Last(out').msg = "step invoked on a resolved future."]_vars

\* C5, amended: polling a Glue that is Invalid panics with the message
\* "Poll called on resolved Future!"
C5_GlueInvalidPanicMessage ==
    [][(held = GlueInvalid /\ ctor' = ctor /\ out' # out)
       => /\ Last(out').tag = "Panic"
          /\ Last(out').msg = "Poll called on resolved Future!"]_vars

\* C5 witness: the client polled a Glue that was Invalid.
C5_Witness ==
    /\ GluePolled
    /\ log = <<"Glue.poll", "Glue:=Invalid", "Glue.panic">>
    /\ Last(out).tag = "Panic"

\* The containers: what the two FutureObject constructors make.
Containers == {"from_type_safe_future", "from_type_unsafe_future"}

\* The value given to the constructor was a script that had not ended.
OrigIsLiveScript ==
    \/ orig.kind = "Script"
    \/ orig.kind = "RefScript" /\ ~orig.done

\* C6: a container poll that returns Success or Failure returns no
\* container and leaves the client with nothing to poll; for a script that is
\* NotReady n times and then ends, the client makes at most n + 1 polls of
\* the container chain, the first n return NotReady with a container, and
\* the poll that ends the run is poll n + 1.
C6_TerminalPollLeavesNothing ==
    ctor \in Containers =>
        /\ \A i \in DOMAIN out :
              out[i].tag \in {"Success", "Failure"} =>
                  /\ ~out[i].cont
                  /\ i = Len(out)
                  /\ held = None
        /\ OrigIsLiveScript =>
              /\ Len(out) <= orig.n + 1
              /\ \A i \in DOMAIN out :
                    IF i <= orig.n
                    THEN out[i].tag = "NotReady" /\ out[i].cont
                    ELSE out[i].tag = orig.end /\ ~out[i].cont /\ held = None

\* C6 witness: NotReady, NotReady, Success(42) in three polls, and nothing
\* left to poll.
C6_Witness ==
    /\ ctor \in Containers
    /\ orig.kind = "Script"
    /\ orig.n = 2
    /\ Len(out) = 3
    /\ out[1].tag = "NotReady"
    /\ out[2].tag = "NotReady"
    /\ out[3].tag = "Success" /\ out[3].item = 42
    /\ held = None

\* What the wrapped value orig gives when polled directly, as many times
\* as the client has polled.
Direct ==
    IF IsOwn(orig) THEN OwnTrace(orig, Len(out)) ELSE RefTrace(orig, Len(out))

IsErr(o) == o.tag \in {"Failure", "Err"}
IsOk(o) == o.tag \in {"Success", "Ready"}

\* C7: through a container of either construction and through a Glue, a
\* poll returns an error exactly when the wrapped future's poll gave one, and
\* it is the same error value; it returns an item exactly when the wrapped
\* future gave one, and it is the same item.  Polls made after the wrapped
\* future has ended (possible only through a Glue) return neither.
C7_ErrorsVerbatim ==
    ctor \in Containers \cup {"glue"} =>
        /\ ctor \in Containers => Len(Direct) = Len(out)
        /\ \A i \in DOMAIN out :
              IF i <= Len(Direct)
              THEN /\ IsErr(out[i]) <=> IsErr(Direct[i])
                   /\ IsErr(out[i]) => out[i].error = Direct[i].error
                   /\ IsOk(out[i]) <=> IsOk(Direct[i])
                   /\ IsOk(out[i]) => out[i].item = Direct[i].item
              ELSE ~IsErr(out[i]) /\ ~IsOk(out[i])

\* C7 witness: error "E" came out of a container around a container.
C7_Witness ==
    /\ ctor = "from_type_safe_future"
    /\ orig.kind = "FutureObject"
    /\ Len(out) >= 2
    /\ Last(out).tag = "Failure"
    /\ Last(out).error = "E"

\* C8: when the future inside a container panics during a container poll,
\* the client's poll unwinds with that panic's message; the panic was raised
\* once and a client future was polled at most once in the call (nothing was
\* caught and polled again); no container comes back, so the client holds
\* nothing and the client future is released.  Both constructions.
C8_PanicPropagates ==
    (/\ ctor \in Containers
     /\ Len(log) > 0
     /\ log[1] = "FutureObject.poll"
     /\ CountEv(log, Panics) > 0)
    => /\ Last(out).tag = "Panic"
       /\ ~Last(out).cont
       /\ Last(out).msg = Last(Direct).msg
       /\ Last(Direct).tag = "Panic"
       /\ CountEv(log, Panics) = 1
       /\ CountEv(log, BasePolls) <= 1
       /\ held = None
       /\ released = made

\* C8 witness, ownership-transferring construction: the script panicked on
\* the third poll of its container.
C8_Witness ==
    /\ ctor = "from_type_safe_future"
    /\ orig.kind = "Script"
    /\ Len(out) = 3
    /\ CountEv(log, {"Script.panic"}) = 1
    /\ Last(out).tag = "Panic"
    /\ held = None

\* C8 witness, reference-based construction: the script panicked on a poll
\* of its container.
C8_WitnessRef ==
    /\ ctor = "from_type_unsafe_future"
    /\ orig.kind = "RefScript"
    /\ Len(out) >= 1
    /\ CountEv(log, {"RefScript.panic"}) = 1
    /\ Last(out).tag = "Panic"
    /\ held = None

\* C9: at every point the client future has exactly one owner or has been
\* released exactly once: what the client holds owns it (once), or it has
\* been released (once), never both and never neither.  So dropping what the
\* client holds, after any number of polls, NotReady or panicked, leaves it
\* released exactly once.
C9_OneOwnerOneRelease ==
    /\ DropCount(held) + released = made
    /\ DropCount(held) <= 1
    /\ held = None => released = made

\* C9 witness: a container was dropped after a poll that returned NotReady,
\* and its script was released by the drop.
C9_Witness ==
    /\ ctor = "from_type_safe_future"
    /\ Len(out) >= 1
    /\ Last(out).tag = "NotReady"
    /\ log = <<"drop", "release">>
    /\ held = None
    /\ released = 1

\* C9 witness: a Glue was dropped after a poll of it had panicked, and the
\* drop released nothing more.
C9_WitnessPanic ==
    /\ ctor = "glue"
    /\ Len(out) >= 1
    /\ Last(out).tag = "Panic"
    /\ log = <<"drop">>
    /\ held = None
    /\ released = 1

\* Every FutureObject inside v holds an UnsafeFuture instance that has not
\* resolved.
RECURSIVE Unresolved(_)
Unresolved(v) ==
    CASE v.kind = "None" -> TRUE
      [] v.kind = "Script" -> TRUE
      [] v.kind = "RefScript" -> TRUE
      [] v.kind = "FutureObject" -> ~v.box.resolved /\ Unresolved(v.box)
      [] v.kind = "TSFuture" -> Unresolved(v.opt)
      [] v.kind = "TUFuture" -> Unresolved(v.f)
      [] v.kind = "Glue" -> Unresolved(v.fut)

\* C10: UnsafeFuture::poll is never called on an instance that has returned
\* Ready or Err or has unwound, so no undefined behaviour is executed, and
\* every FutureObject that exists holds an instance that has not resolved.
C10_UnsafePollOnlyUnresolved ==
    /\ CountEv(log, {"UnsafeFuture.poll(resolved)"}) = 0
    /\ ~ub
    /\ Unresolved(held)

\* C10 witness: a container poll unwound, and an earlier poll of the same
\* container chain had returned NotReady.
C10_Witness ==
    /\ ctor \in Containers
    /\ Len(out) >= 2
    /\ Last(out).tag = "Panic"
    /\ CountEv(log, {"UnsafeFuture.poll"}) >= 1
    /\ held = None

\* Every TSFuture inside v holds Some(future) and has not resolved.
RECURSIVE HoldersFull(_)
HoldersFull(v) ==
    CASE v.kind = "None" -> TRUE
      [] v.kind = "Script" -> TRUE
      [] v.kind = "RefScript" -> TRUE
      [] v.kind = "FutureObject" -> HoldersFull(v.box)
      [] v.kind = "TSFuture" ->
            v.opt # None /\ ~v.resolved /\ HoldersFull(v.opt)
      [] v.kind = "TUFuture" -> HoldersFull(v.f)
      [] v.kind = "Glue" -> HoldersFull(v.fut)

\* The TSFuture of the container last polled, between two of its polls: the
\* Option is Some exactly when the instance has not resolved, and the
\* instance has resolved exactly when that poll returned Success or Failure
\* or unwound.
HolderMatchesHistory ==
    /\ HoldersFull(held)
    /\ boxed.kind = "TSFuture" =>
          /\ (boxed.opt # None) <=> ~boxed.resolved
          /\ boxed.resolved <=> Last(out).tag \in {"Success", "Failure", "Panic"}
          /\ HoldersFull(boxed.opt)

\* C11: between polls, the Option of a TSFuture is Some exactly when the
\* TSFuture has not returned Ready or Err and has not unwound; it is Some
\* right after construction; and once it is None after a poll, no later
\* operation polls that instance or makes it Some again.
C11_HolderSomeIffUnresolved ==
    /\ HolderMatchesHistory
    /\ [][/\ HolderMatchesHistory'
          /\ (ctor' = "from_type_safe_future" /\ out' = <<>> /\ held' # None) =>
                held'.box.opt = held /\ held # None /\ ~held'.box.resolved
          /\ (boxed.kind = "TSFuture" /\ boxed.opt = None) =>
                /\ held = None
                /\ boxed' = boxed \/ boxed' = None]_vars

\* C11 witness: the Option of a TSFuture is None after the poll that
\* returned Success, and the poll before had returned NotReady and left Some.
C11_Witness ==
    /\ ctor = "from_type_safe_future"
    /\ Len(out) >= 2
    /\ out[Len(out) - 1].tag = "NotReady"
    /\ Last(out).tag = "Success"
    /\ boxed.kind = "TSFuture"
    /\ boxed.opt = None
    /\ boxed.resolved

\* C12: when the future inside a TSFuture panics during TSFuture::poll, the
\* TSFuture is left holding None: the drop of the container that follows
\* releases nothing, the client future has been released once, not twice,
\* and nothing reachable holds it.
C12_PanicLeavesHolderEmpty ==
    (/\ ctor = "from_type_safe_future"
     /\ boxed.kind = "TSFuture"
     /\ CountEv(log, Panics) > 0)
    => /\ boxed.opt = None
       /\ DropCount(boxed) = 0
       /\ CountEv(log, {"release"}) <= 1
       /\ released = made
       /\ held = None

\* C12 witness: a script panicked on the second poll of its container, after
\* a NotReady.
C12_Witness ==
    /\ ctor = "from_type_safe_future"
    /\ orig.kind = "Script"
    /\ Len(out) = 2
    /\ out[1].tag = "NotReady"
    /\ out[2].tag = "Panic"
    /\ boxed.kind = "TSFuture"
    /\ boxed.opt = None
    /\ released = 1

\* The events that are a wrapped future being polled.
WrappedPolls == BasePolls \cup {"FutureObject.poll"}

\* C13: every poll of a Glue writes Invalid before the wrapped future is
\* polled and writes Valid back only after NotReady, as the last thing it
\* does; so a poll in which the wrapped future panics leaves the Glue
\* Invalid, and the next poll panics with the misuse message without polling
\* the consumed future.
C13_GlueInvalidBeforeStep ==
    [][(held.kind = "Glue" /\ ctor' = ctor /\ out' # out)
       => /\ Len(log') >= 2
          /\ log'[1] = "Glue.poll"
          /\ log'[2] = "Glue:=Invalid"
          /\ \A i \in DOMAIN log' : log'[i] \in WrappedPolls => i > 2
          /\ held'.state = "Valid" <=> Last(out').tag = "NotReady"
          /\ held'.state = "Valid" => Last(log') = "Glue:=Valid"
          /\ held.state = "Valid" =>
                log'[3] \in WrappedPolls /\ (Last(log') = "Glue:=Valid" \/ held' = GlueInvalid)
          /\ Last(out').tag = "Panic" => held' = GlueInvalid
          /\ (Len(out) >= 1 /\ Last(out).tag = "Panic") =>
                /\ held = GlueInvalid
                /\ Last(out').tag = "Panic"
                /\ Last(out').msg = GluePanicMsg
                /\ log' = <<"Glue.poll", "Glue:=Invalid", "Glue.panic">>
                /\ released' = released]_vars

\* C13 witness: the wrapped script panicked in a poll of the Glue, and the
\* next poll of the Glue panicked with the misuse message.
C13_Witness ==
    /\ ctor = "glue"
    /\ Len(out) >= 2
    /\ out[Len(out) - 1].tag = "Panic"
    /\ out[Len(out) - 1].msg = "script"
    /\ Last(out).tag = "Panic"
    /\ Last(out).msg = GluePanicMsg
    /\ held = GlueInvalid

\* The number of FutureObjects in a value.
RECURSIVE FOCount(_)
FOCount(v) ==
    CASE v.kind = "None" -> 0
      [] v.kind = "Script" -> 0
      [] v.kind = "RefScript" -> 0
      [] v.kind = "FutureObject" -> 1 + FOCount(v.box)
      [] v.kind = "TSFuture" -> FOCount(v.opt)
      [] v.kind = "TUFuture" -> FOCount(v.f)
      [] v.kind = "Glue" -> FOCount(v.fut)

\* The client future inside a value (None when it holds none).
RECURSIVE BaseOf(_)
BaseOf(v) ==
    CASE v.kind = "None" -> None
      [] v.kind = "Script" -> v
      [] v.kind = "RefScript" -> v
      [] v.kind = "FutureObject" -> BaseOf(v.box)
      [] v.kind = "TSFuture" -> BaseOf(v.opt)
      [] v.kind = "TUFuture" -> BaseOf(v.f)
      [] v.kind = "Glue" -> BaseOf(v.fut)

\* C14: a container poll calls the boxed instance's poll exactly once (so a
\* chain of containers makes one call per container), and through it polls
\* the client future exactly once; after k polls of a container around a
\* script, the script has been polled exactly k times; the client is left
\* with a container only by NotReady, and with nothing in every other case.
C14_OneBoxedPollPerStep ==
    /\ (ctor \in Containers /\ Len(log) > 0 /\ log[1] = "FutureObject.poll") =>
          /\ log[2] = "UnsafeFuture.poll"
          /\ CountEv(log, {"FutureObject.poll"}) = FOCount(orig) + 1
          /\ CountEv(log, {"UnsafeFuture.poll", "UnsafeFuture.poll(resolved)"})
                = FOCount(orig) + 1
          /\ CountEv(log, BasePolls) = DropCount(orig)
          /\ Last(out).tag = "NotReady" <=> held # None
          /\ held # None => held.kind = "FutureObject" /\ Last(out).cont
    /\ (ctor \in Containers /\ OrigIsLiveScript) =>
          IF held # None
          THEN BaseOf(held).n = orig.n - Len(out)
          ELSE Len(out) <= orig.n + 1

\* C14 witness: two polls of a container around a script that needs two
\* more; the script inside has been polled twice.
C14_Witness ==
    /\ ctor = "from_type_safe_future"
    /\ orig.kind = "Script"
    /\ orig.n = 2
    /\ Len(out) = 2
    /\ held.kind = "FutureObject"
    /\ BaseOf(held).n = 0
    /\ CountEv(log, {"UnsafeFuture.poll"}) = 1
    /\ CountEv(log, {"Script.poll"}) = 1

\* C15: in the NotReady arm of TSFuture::poll the value that the
\* re-insertion replaces is always None: unchecked_unwrap_none() never meets
\* Some, in any container at any depth.
C15_ReinsertionFindsNone ==
    /\ CountEv(log, {"TSFuture.replace(Some)"}) = 0
    /\ ~ub
    /\ \A i \in DOMAIN log :
          log[i] = "TSFuture.replace(None)" =>
              \E j \in 1..(i - 1) :
                  /\ log[j] = "TSFuture.take"
                  /\ CountEv(SubSeq(log, j, i), {"TSFuture.take"})
                        = CountEv(SubSeq(log, j, i), {"TSFuture.replace(None)"})
    /\ (boxed.kind = "TSFuture" /\ Last(out).tag = "NotReady") =>
          /\ Last(log) = "TSFuture.replace(None)"
          /\ boxed.opt # None

\* C15 witness: a container around a container returned NotReady, and both
\* TSFutures put their continuation back into an empty Option.
C15_Witness ==
    /\ ctor = "from_type_safe_future"
    /\ orig.kind = "FutureObject"
    /\ Len(out) >= 1
    /\ Last(out).tag = "NotReady"
    /\ CountEv(log, {"TSFuture.take"}) = 2
    /\ CountEv(log, {"TSFuture.replace(None)"}) = 2

\* The results of polling orig directly, at most as many as the client has
\* made polls of the Glue around it.
DirectOwn == OwnTrace(orig, Len(out))

\* C16: the polls of f.glue(), up to the first Ready, Err or panic of f,
\* return what polling f directly returns, mapped Success(v) -> Ready(v),
\* Failure(e) -> Err(e), NotReady(f2) -> NotReady; none of these polls finds
\* the Glue Invalid, so none raises the misuse panic.
C16_GlueRefinesFuture ==
    ctor = "glue" =>
        /\ Len(DirectOwn) <= Len(out)
        /\ SubSeq(out, 1, Len(DirectOwn)) = MapSeq(OwnToRef, DirectOwn)
        /\ Len(out) > Len(DirectOwn) => Last(DirectOwn).tag # "NotReady"
        /\ (GluePolled /\ Len(out) = Len(DirectOwn)) =>
              /\ log[3] # "Glue.panic"
              /\ log[3] \in WrappedPolls
        /\ (GluePolled /\ Len(out) > Len(DirectOwn)) => log[3] = "Glue.panic"

\* C16 witness: a Glue around a script returned NotReady twice and then
\* Ready(42).
C16_Witness ==
    /\ ctor = "glue"
    /\ orig.kind = "Script"
    /\ orig.n = 2
    /\ Len(out) = 3
    /\ out[1].tag = "NotReady"
    /\ out[2].tag = "NotReady"
    /\ out[3].tag = "Ready" /\ out[3].item = 42
    /\ held = GlueInvalid

\* held was made by from_type_unsafe_future(f.glue()).
IsGlueComposition ==
    ctor = "from_type_unsafe_future" /\ orig.kind = "Glue" /\ orig.state = "Valid"

\* held was made by from_type_safe_future(from_type_safe_future(f)).
IsDoubleContainer ==
    /\ ctor = "from_type_safe_future"
    /\ orig.kind = "FutureObject"
    /\ orig.box.kind = "TSFuture"

\* C17: the polls of from_type_unsafe_future(f.glue()) and those of
\* from_type_safe_future(from_type_safe_future(f)) return, poll after poll,
\* what the polls of from_type_safe_future(f) return; in the first
\* composition every poll finds the Glue Valid.
C17_WrappersCompose ==
    /\ IsGlueComposition =>
          /\ out = OwnTrace(from_type_safe_future(orig.fut), Len(out))
          /\ (Len(log) > 0 /\ log[1] = "FutureObject.poll") =>
                /\ SubSeq(log, 1, 5) = <<"FutureObject.poll", "UnsafeFuture.poll",
                                         "TUFuture.poll", "Glue.poll", "Glue:=Invalid">>
                /\ log[6] # "Glue.panic"
                /\ log[6] \in WrappedPolls
          /\ held # None => held.box.f.state = "Valid"
    /\ IsDoubleContainer =>
          out = OwnTrace(from_type_safe_future(orig.box.opt), Len(out))

\* C17 witness, Glue composition: NotReady, then Failure("E").
C17_Witness ==
    /\ IsGlueComposition
    /\ Len(out) = 2
    /\ out[1].tag = "NotReady" /\ out[1].cont
    /\ out[2].tag = "Failure" /\ out[2].error = "E"
    /\ held = None

\* C17 witness, container in a container: NotReady, then Success(7).
C17_WitnessDouble ==
    /\ IsDoubleContainer
    /\ orig.box.opt.kind = "Script"
    /\ Len(out) = 2
    /\ out[1].tag = "NotReady" /\ out[1].cont
    /\ out[2].tag = "Success" /\ out[2].item = 7
    /\ held = None

====
